---- MODULE Spec2Model ----
(***************************************************************************)
(* Settings reconciliation of katrain/gui/popups.py: the form fields, the  *)
(* collect / diff / write handlers of QuickConfigGui, ConfigPopup and      *)
(* ConfigTeacherPopup, and the deferred engine restart of ConfigPopup.     *)
(*                                                                         *)
(* Text is a sequence of one-character strings.  A setting path is a       *)
(* sequence of tokens: names and the separator tokens "/" and "::".        *)
(* Python values are tagged records, so that ==, str(), int() and float()  *)
(* are computed as Python computes them; floats are kept in tenths.        *)
(***************************************************************************)
EXTENDS Integers, Sequences, FiniteSets, TLC

\* ------------------------------------------------------------------ bounds
\* user operations (field edits and presses of an apply button) per behaviour
MaxOps == 4
\* entries of the indexed trainer lists (eval_thresholds, eval_colors, save_feedback)
NIdx == 2
\* characters a text field may hold after typing
MaxText == 4
\* characters of one insert_text call (a key press or a paste)
MaxSub == 3

\* ------------------------------------------------------------ Python values
IntV(n) == [t |-> "int", v |-> n]
FloatV(tenths) == [t |-> "float", v |-> tenths]
BoolV(b) == [t |-> "bool", v |-> b]
StrV(s) == [t |-> "str", v |-> s]
ListV(l) == [t |-> "list", v |-> l]
DictV(d) == [t |-> "dict", v |-> d]
EmptyDict == DictV(<<>>)

IsNum(x) == x.t \in {"int", "float", "bool"}
\* numeric value in tenths (True == 1, False == 0)
Num(x) == IF x.t = "int" THEN 10 * x.v ELSE IF x.t = "float" THEN x.v ELSE IF x.v THEN 10 ELSE 0

RECURSIVE PyEq(_, _)
\* Python ==
PyEq(a, b) ==
    IF IsNum(a) /\ IsNum(b) THEN Num(a) = Num(b)
    ELSE IF a.t # b.t THEN FALSE
    ELSE IF a.t = "list"
      THEN Len(a.v) = Len(b.v) /\ \A i \in 1..Len(a.v) : PyEq(a.v[i], b.v[i])
    ELSE a.v = b.v

\* bool(x) for the values a checkbox or the alpha conversion meets
Truthy(x) == IF IsNum(x) THEN Num(x) # 0 ELSE IF x.t \in {"str", "list"} THEN x.v # <<>> ELSE TRUE

Range(s) == {s[i] : i \in 1..Len(s)}

\* ------------------------------------------------------------ text <-> value
Digits == <<"0", "1", "2", "3", "4", "5", "6", "7", "8", "9">>
IsDigit(c) == c \in Range(Digits)
DigitVal(c) == (CHOOSE i \in 1..10 : Digits[i] = c) - 1

RECURSIVE DigitsVal(_)
DigitsVal(s) == IF s = <<>> THEN 0 ELSE 10 * DigitsVal(SubSeq(s, 1, Len(s) - 1)) + DigitVal(s[Len(s)])

AllDigits(s) == \A i \in 1..Len(s) : IsDigit(s[i])
Unsigned(s) == IF s # <<>> /\ Head(s) = "-" THEN Tail(s) ELSE s
Negative(s) == s # <<>> /\ Head(s) = "-"

\* int(text) raises ValueError unless the text is an optional sign and digits
IntOK(s) == Unsigned(s) # <<>> /\ AllDigits(Unsigned(s))
IntVal(s) == IF Negative(s) THEN 0 - DigitsVal(Unsigned(s)) ELSE DigitsVal(Unsigned(s))

DotAt(s) == IF "." \in Range(s) THEN CHOOSE i \in 1..Len(s) : s[i] = "." /\ \A j \in 1..(i - 1) : s[j] # "." ELSE 0
IntPart(s) == IF DotAt(s) = 0 THEN s ELSE SubSeq(s, 1, DotAt(s) - 1)
FracPart(s) == IF DotAt(s) = 0 THEN <<>> ELSE SubSeq(s, DotAt(s) + 1, Len(s))

\* float(text) raises ValueError unless the text is an optional sign, digits
\* with at most one point, and at least one digit
FloatOK(s) ==
    LET u == Unsigned(s)
    IN  /\ AllDigits(IntPart(u))
        /\ AllDigits(FracPart(u))
        /\ Len(IntPart(u)) + Len(FracPart(u)) > 0
\* value in tenths; the texts of the model carry at most one fractional digit
FloatVal(s) ==
    LET u == Unsigned(s)
        m == 10 * DigitsVal(IntPart(u)) + (IF FracPart(u) = <<>> THEN 0 ELSE DigitVal(Head(FracPart(u))))
    IN  IF Negative(s) THEN 0 - m ELSE m

RECURSIVE NatStr(_)
NatStr(n) == IF n < 10 THEN <<Digits[n + 1]>> ELSE NatStr(n \div 10) \o <<Digits[(n % 10) + 1]>>
IntStr(n) == IF n < 0 THEN <<"-">> \o NatStr(0 - n) ELSE NatStr(n)

\* str(value), as a character sequence; str(True) is the word "True"
str(x) ==
    IF x.t = "int" THEN IntStr(x.v)
    ELSE IF x.t = "float"
      THEN (IF x.v < 0 THEN <<"-">> ELSE <<>>)
           \o NatStr((IF x.v < 0 THEN 0 - x.v ELSE x.v) \div 10) \o <<".">>
           \o NatStr((IF x.v < 0 THEN 0 - x.v ELSE x.v) % 10)
    ELSE IF x.t = "bool" THEN (IF x.v THEN <<"T", "r", "u", "e">> ELSE <<"F", "a", "l", "s", "e">>)
    ELSE x.v

Lower(c) == IF c = "T" THEN "t" ELSE IF c = "F" THEN "f" ELSE c
lower(s) == [i \in 1..Len(s) |-> Lower(s[i])]

\* ------------------------------------------------------------------ paths
RECURSIVE SplitFrom(_, _, _)
SplitFrom(s, sep, cur) ==
    IF s = <<>> THEN <<cur>>
    ELSE IF Head(s) = sep THEN <<cur>> \o SplitFrom(Tail(s), sep, "")
    ELSE SplitFrom(Tail(s), sep, cur \o Head(s))
\* key.split(sep)
split(s, sep) == SplitFrom(s, sep, "")

RECURSIVE Join(_)
\* the path as one string, as used for a plain dictionary key
Join(s) == IF s = <<>> THEN "" ELSE Head(s) \o Join(Tail(s))

\* ------------------------------------------------------------------ store
\* d[k] = v on a dictionary value
DictSet(d, k, v) == DictV([x \in DOMAIN d.v \cup {k} |-> IF x = k THEN v ELSE d.v[x]])
\* l[i] = v on a list value, i counted from 0
ListSet(l, i, v) == ListV([l.v EXCEPT ![i + 1] = v])

RECURSIVE GetSettingIn(_, _)
GetSettingIn(conf, keys) ==
    LET k == Head(keys)
    IN  IF Len(keys) = 1
        THEN IF k \in DOMAIN conf.v
             THEN [value |-> conf.v[k], conf |-> conf, missing |-> FALSE]
             ELSE [value |-> StrV(<<>>), conf |-> DictSet(conf, k, StrV(<<>>)), missing |-> TRUE]
        ELSE LET sub == IF k \in DOMAIN conf.v THEN conf.v[k] ELSE EmptyDict
                 r == GetSettingIn(sub, Tail(keys))
             IN  [value |-> r.value, conf |-> DictSet(conf, k, r.conf), missing |-> r.missing]
\* a get_setting that creates the missing setting without the log entry
get_setting_silent(store, key) == [GetSettingIn(store, split(key, "/")) EXCEPT !.missing = FALSE]
\* QuickConfigGui.get_setting: the value at key, the store with every missing
\* level and a missing leaf ("") created, and whether the error was logged
get_setting(store, key) == GetSettingIn(store, split(key, "/"))

RECURSIVE SetIn(_, _, _)
SetIn(conf, keys, v) ==
    IF Len(keys) = 1 THEN DictSet(conf, Head(keys), v)
    ELSE DictSet(conf, Head(keys), SetIn(conf.v[Head(keys)], Tail(keys), v))
\* a write of the value's text where the code writes the value
set_setting_text(store, key, v) == SetIn(store, split(key, "/"), StrV(str(v)))
\* conf[key] = value through the reference get_setting returned
set_setting(store, key, v) == SetIn(store, split(key, "/"), v)

RECURSIVE HasIn(_, _)
HasIn(conf, keys) ==
    /\ conf.t = "dict"
    /\ Head(keys) \in DOMAIN conf.v
    /\ (Len(keys) = 1 \/ HasIn(conf.v[Head(keys)], Tail(keys)))
HasPath(store, key) == HasIn(store, split(key, "/"))

RECURSIVE LookIn(_, _)
LookIn(conf, keys) == IF Len(keys) = 1 THEN conf.v[Head(keys)] ELSE LookIn(conf.v[Head(keys)], Tail(keys))
Lookup(store, key) == LookIn(store, split(key, "/"))

Idx == 0..(NIdx - 1)
IdxTok(i) == Digits[i + 1]

\* the configuration katrain has loaded when the forms are built
InitConfig ==
    DictV(
      ("engine" :> DictV(("visits" :> IntV(1)) @@ ("max_time" :> FloatV(10)) @@ ("model" :> StrV(<<"a">>))))
      @@ ("debug" :> DictV("level" :> IntV(0)))
      @@ ("timer" :> DictV("main_time" :> IntV(1)))
      @@ ("game" :> DictV("clear_cache" :> BoolV(FALSE)))
      @@ ("trainer" :> DictV(("eval_thresholds" :> ListV([i \in 1..NIdx |-> FloatV(10)]))
                             @@ ("eval_off_show_last" :> IntV(3))))
      @@ ("sgf" :> DictV("save_feedback" :> ListV([i \in 1..NIdx |-> BoolV(TRUE)])))
      @@ ("board_ui" :> DictV("eval_colors" :> ListV([i \in 1..NIdx |->
                ListV(<<FloatV(5), FloatV(5), FloatV(5), FloatV(10)>>)]))))

\* -------------------------------------------------------------- form trees
Guis == {"quick", "config", "teacher"}
TextClasses == {"LabelledTextInput", "LabelledIntInput", "LabelledFloatInput"}
FieldClasses == TextClasses \cup {"LabelledCheckBox"}

Container(cs) == [cls |-> "BoxLayout", input_property |-> <<>>, children |-> cs]
Plain == [cls |-> "Label", input_property |-> <<>>, children |-> <<>>]
Field(cls, path) == [cls |-> cls, input_property |-> path, children |-> <<>>]

\* ConfigPopup.build for the categories engine and debug; children are listed
\* as widget.children lists them, the widget added last first
ConfigTree ==
    (1 :> Container(<<9, 2>>)) @@ (2 :> Container(<<4, 3>>))
    @@ (3 :> Container(<<5>>)) @@ (4 :> Container(<<6>>))
    @@ (5 :> Container(<<13, 12, 11, 10>>)) @@ (6 :> Container(<<15, 14>>))
    @@ (9 :> Container(<<18, 17, 16>>))
    @@ (10 :> Plain)
    @@ (11 :> Field("LabelledIntInput", <<"engine", "/", "visits">>))
    @@ (12 :> Field("LabelledFloatInput", <<"engine", "/", "max_time">>))
    @@ (13 :> Field("LabelledTextInput", <<"engine", "/", "model">>))
    @@ (14 :> Plain)
    @@ (15 :> Field("LabelledIntInput", <<"debug", "/", "level">>))
    @@ (16 :> Plain) @@ (17 :> Plain) @@ (18 :> Plain)

\* ConfigTeacherPopup.build: the rows of the threshold grid, then the
\* eval_off_show_last box, then the button row
ThrId(i) == 10 * (i + 1) + 1
AlphaId(i) == 10 * (i + 1) + 2
SaveId(i) == 10 * (i + 1) + 3
RECURSIVE ThrRows(_)
ThrRows(n) == IF n = 0 THEN <<>> ELSE <<SaveId(n - 1), AlphaId(n - 1), ThrId(n - 1)>> \o ThrRows(n - 1)
TeacherTree ==
    LET fixed == (1 :> Container(<<5, 3, 2>>)) @@ (2 :> Container(ThrRows(NIdx) \o <<6>>))
                 @@ (3 :> Container(<<4, 7>>))
                 @@ (4 :> Field("LabelledIntInput", <<"eval_off_show_last">>))
                 @@ (5 :> Container(<<8>>)) @@ (6 :> Plain) @@ (7 :> Plain) @@ (8 :> Plain)
        rows == [n \in UNION {{ThrId(i), AlphaId(i), SaveId(i)} : i \in Idx} |->
                    LET i == (n \div 10) - 1
                    IN  IF n = ThrId(i) THEN Field("LabelledFloatInput", <<"eval_thresholds", "::", IdxTok(i)>>)
                        ELSE IF n = AlphaId(i) THEN Field("LabelledCheckBox", <<"alpha", "::", IdxTok(i)>>)
                        ELSE Field("LabelledCheckBox", <<"save_feedback", "::", IdxTok(i)>>)]
    IN  fixed @@ rows

\* a form laid out in kv for QuickConfigGui: two fields of stored settings,
\* one whose setting the configuration file lacks, and, as a child of the
\* main_time field, a second field of the same setting
QuickTree ==
    (1 :> Container(<<3, 2>>))
    @@ (2 :> [Field("LabelledIntInput", <<"timer", "/", "main_time">>) EXCEPT !.children = <<6>>])
    @@ (6 :> Field("LabelledIntInput", <<"timer", "/", "main_time">>))
    @@ (3 :> Container(<<5, 4>>))
    @@ (4 :> Field("LabelledCheckBox", <<"game", "/", "clear_cache">>))
    @@ (5 :> Field("LabelledTextInput", <<"x", "/", "y">>))

Tree(g) == IF g = "config" THEN ConfigTree ELSE IF g = "teacher" THEN TeacherTree ELSE QuickTree
Root == 1
IsField(node) == node.cls \in FieldClasses /\ node.input_property # <<>>
FieldIds(g) == {n \in DOMAIN Tree(g) : IsField(Tree(g)[n])}

\* ------------------------------------------------------------ input_value
\* the widget's input_value property: [ok, value]; ok is FALSE where the
\* property raises (int("") and float("") raise ValueError)
input_value(cls, w) ==
    IF cls = "LabelledCheckBox" THEN [ok |-> TRUE, value |-> BoolV(w.active)]
    ELSE IF cls = "LabelledIntInput"
      THEN IF IntOK(w.text) THEN [ok |-> TRUE, value |-> IntV(IntVal(w.text))] ELSE [ok |-> FALSE]
    ELSE IF cls = "LabelledFloatInput"
      THEN IF FloatOK(w.text) THEN [ok |-> TRUE, value |-> FloatV(FloatVal(w.text))] ELSE [ok |-> FALSE]
    ELSE [ok |-> TRUE, value |-> StrV(w.text)]

\* ------------------------------------------------------------------ collect
\* a Python dict: its keys in insertion order and their values
EmptyMap == [keys |-> <<>>, val |-> <<>>]
\* a dict that keeps the value a key got first
MapPutFirst(m, k, v) ==
    IF k \in Range(m.keys) THEN m
    ELSE [keys |-> Append(m.keys, k), val |-> [x \in DOMAIN m.val \cup {k} |-> IF x = k THEN v ELSE m.val[x]]]
\* ret[k] = v
MapPut(m, k, v) ==
    [keys |-> IF k \in Range(m.keys) THEN m.keys ELSE Append(m.keys, k),
     val |-> [x \in DOMAIN m.val \cup {k} |-> IF x = k THEN v ELSE m.val[x]]]
RECURSIVE MapUpdate(_, _, _)
\* for k, v in r.items(): ret[k] = v
MapUpdate(ret, r, i) == IF i > Len(r.keys) THEN ret ELSE MapUpdate(MapPut(ret, r.keys[i], r.val[r.keys[i]]), r, i + 1)

RECURSIVE collect_properties(_, _, _)
RECURSIVE CollectChildren(_, _, _, _)
RECURSIVE CollectChildrenLenient(_, _, _, _)
\* a walk over the children that drops a child whose value does not parse
CollectChildrenLenient(tree, f, cs, ret) ==
    IF cs = <<>> THEN [err |-> FALSE, ret |-> ret]
    ELSE LET r == collect_properties(tree, f, Head(cs))
         IN  IF r.err THEN CollectChildrenLenient(tree, f, Tail(cs), ret)
             ELSE CollectChildrenLenient(tree, f, Tail(cs), MapUpdate(ret, r.ret, 1))
\* QuickConfigGui.collect_properties: [err |-> FALSE, ret] or, when a field's
\* input_value raises, [err |-> TRUE, path] (InputParseError)
collect_properties(tree, f, w) ==
    LET node == tree[w]
        iv == input_value(node.cls, f[w])
    IN  IF IsField(node) /\ ~iv.ok THEN [err |-> TRUE, path |-> node.input_property]
        ELSE CollectChildren(tree, f, node.children,
                 IF IsField(node) THEN MapPut(EmptyMap, node.input_property, iv.value) ELSE EmptyMap)
CollectChildren(tree, f, cs, ret) ==
    IF cs = <<>> THEN [err |-> FALSE, ret |-> ret]
    ELSE LET r == collect_properties(tree, f, Head(cs))
         IN  IF r.err THEN r ELSE CollectChildren(tree, f, Tail(cs), MapUpdate(ret, r.ret, 1))

\* --------------------------------------------------------- the katrain object
\* katrain.engine, katrain.game.engines, katrain.debug_level and every
\* KataGoEngine built so far; an engine is known by its place in engines
Engine(proc, visits) == [proc |-> proc, visits |-> visits]
Procs == {"running", "none"}

\* what a handler or a clock callback works on: the katrain object, the
\* callbacks Clock holds, the calls made so far, and the restart callbacks
\* created so far with how often each ran and the engine it built
World(k, c, tr, ts) == [katrain |-> k, clock |-> c, trace |-> tr, tasks |-> ts]
Emit(w, e) == [w EXCEPT !.trace = Append(@, e)]

\* KataGoEngine.shutdown(finish=True): returns once the queries in flight are
\* answered and the process has ended
shutdown(k, e) == [k EXCEPT !.engines[e].proc = "stopped"]
\* KataGoEngine(katrain, config["engine"]): a running engine bound to the slice
KataGoEngine(store) == Engine("running", store.v["engine"].v["visits"])

NoLocals == [old_engine |-> 0, new_engine |-> 0]

\* the statements of restart_engine, in the order the callback runs them
restart_engine_swapped ==
    <<"old_engine", "new_engine", "set_engine", "shutdown",
      "set_game_engines", "analyze_all_nodes", "update_state">>
\* the callback without the shutdown of the engine it replaces
restart_engine_no_shutdown ==
    <<"old_engine", "new_engine", "set_engine",
      "set_game_engines", "analyze_all_nodes", "update_state">>
\* the callback with the analysis run before the references are repointed
restart_engine_analyze_first ==
    <<"old_engine", "shutdown", "new_engine", "analyze_all_nodes",
      "set_engine", "set_game_engines", "update_state">>
restart_engine ==
    <<"old_engine", "shutdown", "new_engine", "set_engine",
      "set_game_engines", "analyze_all_nodes", "update_state">>

\* one statement of restart_engine run by callback id
RunStep(w, loc, store, id, step) ==
    LET k == w.katrain
    IN  CASE step = "old_engine" ->
               [w |-> w, loc |-> [loc EXCEPT !.old_engine = k.engine]]
          [] step = "shutdown" ->
               IF k.engines[loc.old_engine].proc = "running"
               THEN [w |-> Emit([w EXCEPT !.katrain = shutdown(k, loc.old_engine)], "restart_engine: shutdown"), loc |-> loc]
               ELSE [w |-> w, loc |-> loc]
          [] step = "new_engine" ->
               [w |-> Emit([w EXCEPT !.katrain.engines = Append(@, KataGoEngine(store)),
                                     !.tasks[id].engine = Len(k.engines) + 1], "restart_engine: KataGoEngine"),
                loc |-> [loc EXCEPT !.new_engine = Len(k.engines) + 1]]
          [] step = "set_engine" ->
               [w |-> [w EXCEPT !.katrain.engine = loc.new_engine], loc |-> loc]
          [] step = "set_game_engines" ->
               [w |-> [w EXCEPT !.katrain.game_engines = [c \in {"B", "W"} |-> loc.new_engine]], loc |-> loc]
          [] step = "analyze_all_nodes" ->
               [w |-> Emit(w, "restart_engine: analyze_all_nodes"), loc |-> loc]
          [] OTHER ->
               [w |-> Emit(w, "restart_engine: update_state"), loc |-> loc]

RECURSIVE RunFrom(_, _, _, _, _)
RunFrom(w, loc, store, id, pc) ==
    IF pc > Len(restart_engine) THEN [w EXCEPT !.tasks[id].runs = @ + 1]
    ELSE LET r == RunStep(w, loc, store, id, restart_engine[pc])
         IN  RunFrom(r.w, r.loc, store, id, pc + 1)

NewTask == [runs |-> 0, engine |-> 0]
\* a call of the callback in place, where the code hands it to the clock
Clock_call_now(w, store) ==
    RunFrom([w EXCEPT !.tasks = Append(@, NewTask)], NoLocals, store, Len(w.tasks) + 1, 1)
\* a clock that keeps one pending callback and drops a second request
Clock_schedule_coalesced(w, store) ==
    [w EXCEPT !.tasks = Append(@, NewTask),
              !.clock = IF @ = <<>> THEN <<Len(w.tasks) + 1>> ELSE @]
\* Clock.schedule_once(restart_engine, 0): the callback runs on a later clock tick
Clock_schedule_once(w, store) ==
    [w EXCEPT !.tasks = Append(@, NewTask), !.clock = Append(@, Len(w.tasks) + 1)]

\* --------------------------------------------------------------- handlers
\* what one update_config call did: the collected map, the changed set the
\* code computed, the paths written, the store handed to save_config, how the
\* call ended; again: the call before it collected the same map, and
\* prev_changed: that call changed the store
NoSave == [t |-> "none"]
Cycle(g, save, outcome, collected, updated, writes, saved) ==
    [gui |-> g, save_to_file |-> save, outcome |-> outcome, collected |-> collected,
     updated |-> updated, writes |-> writes, saved |-> saved,
     again |-> FALSE, prev_changed |-> FALSE]
NoCycle == Cycle("none", FALSE, "none", EmptyMap, {}, <<>>, NoSave)

\* the result of a handler: the store, the world, the popup and its label
Result(store, w, open, label, cyc) ==
    [config |-> store, w |-> w, popup_open |-> open, info_label |-> label, cycle |-> cyc]

\* katrain.save_config(): writes the store to the configuration file, or
\* fails with IOError
save_config(w, fails) == Emit(w, IF fails THEN "save_config raises IOError" ELSE "save_config")
SaveEvents == {"save_config", "save_config raises IOError"}

\* a save step that ignores the caller's flag
SaveAlways(w, store, save_to_file, save_fails) ==
    [w |-> save_config(w, save_fails), saved |-> store, raised |-> save_fails]
\* if save_to_file: self.katrain.save_config()
SaveStep(w, store, save_to_file, save_fails) ==
    IF save_to_file
    THEN [w |-> save_config(w, save_fails), saved |-> store, raised |-> save_fails]
    ELSE [w |-> w, saved |-> NoSave, raised |-> FALSE]

RECURSIVE QuickLoop(_, _, _)
\* the loop of QuickConfigGui.update_config over the collected items
QuickLoop(acc, c, i) ==
    IF i > Len(c.keys) THEN acc
    ELSE LET multikey == c.keys[i]
             value == c.val[multikey]
             g == get_setting(acc.config, multikey)
             w1 == IF g.missing THEN Emit(acc.w, "log error") ELSE acc.w
         IN  IF ~PyEq(value, g.value)
             THEN QuickLoop([config |-> set_setting(g.conf, multikey, value),
                             w |-> Emit(w1, "write"),
                             updated |-> acc.updated \cup {multikey},
                             writes |-> Append(acc.writes, multikey)], c, i + 1)
             ELSE QuickLoop([acc EXCEPT !.config = g.conf, !.w = w1], c, i + 1)

\* QuickConfigGui.update_config(save_to_file)
Quick_update_config(store, f, w0, open, label, save_to_file, save_fails) ==
    LET w == [w0 EXCEPT !.trace = <<>>]
        c == collect_properties(QuickTree, f, Root)
    IN  IF c.err
        THEN Result(store, Emit(w, "raise InputParseError"), open, label,
                    Cycle("quick", save_to_file, "InputParseError", EmptyMap, {}, <<>>, NoSave))
        ELSE
        LET a == QuickLoop([config |-> store, w |-> w, updated |-> {}, writes |-> <<>>], c.ret, 1)
            cyc(outcome, saved) == Cycle("quick", save_to_file, outcome, c.ret, a.updated, a.writes, saved)
            sv == SaveStep(a.w, a.config, save_to_file, save_fails)
        IN  IF sv.raised
            THEN Result(a.config, sv.w, open, label, cyc("IOError", sv.saved))
            ELSE
            LET w3 == IF a.updated # {} THEN Emit(sv.w, "update_state") ELSE sv.w
            IN  Result(a.config, Emit(w3, "dismiss"), FALSE, label, cyc("ok", sv.saved))

RECURSIVE ConfigLoopUnrecorded(_, _, _)
\* the loop with the write kept and the append to updated_cat lost
ConfigLoopUnrecorded(acc, c, i) ==
    IF i > Len(c.keys) THEN acc
    ELSE LET k == c.keys[i]
             v == c.val[k]
             k1 == split(k, "/")[1]
             k2 == split(k, "/")[2]
         IN  IF ~PyEq(acc.config.v[k1].v[k2], v)
             THEN ConfigLoopUnrecorded(
                      [acc EXCEPT !.config = DictSet(acc.config, k1, DictSet(acc.config.v[k1], k2, v)),
                                  !.w = Emit(acc.w, "write")], c, i + 1)
             ELSE ConfigLoopUnrecorded(acc, c, i + 1)

RECURSIVE ConfigLoop(_, _, _)
\* the loop of ConfigPopup.update_config over the collected items
ConfigLoop(acc, c, i) ==
    IF i > Len(c.keys) THEN acc
    ELSE LET k == c.keys[i]
             v == c.val[k]
             k1 == split(k, "/")[1]
             k2 == split(k, "/")[2]
         IN  IF ~PyEq(acc.config.v[k1].v[k2], v)
             THEN ConfigLoop([config |-> DictSet(acc.config, k1, DictSet(acc.config.v[k1], k2, v)),
                              w |-> Emit(acc.w, "write"),
                              updated_cat |-> [x \in DOMAIN acc.updated_cat \cup {k1} |->
                                  IF x = k1
                                  THEN Append(IF k1 \in DOMAIN acc.updated_cat THEN acc.updated_cat[k1] ELSE <<>>, k2)
                                  ELSE acc.updated_cat[x]],
                              writes |-> Append(acc.writes, k)], c, i + 1)
             ELSE ConfigLoop(acc, c, i + 1)

\* the engine keys whose change ConfigPopup applies without a restart
NoRestartKeys == {"max_visits", "max_time", "enable_ownership", "wide_root_noise"}

\* a message that leaves the path out
ParseErrorUnnamed(path) == <<"Could not parse value">>
\* str(e) of the InputParseError collect_properties raises
ParseErrorLabel(path) == <<"Could not parse value for">> \o path
RestartLabel == <<"Restarting engine">>

\* ConfigPopup.update_config(save_to_file)
Config_update_config(store, f, w0, open, label, save_to_file, save_fails) ==
    LET w == [w0 EXCEPT !.trace = <<>>]
        c == collect_properties(ConfigTree, f, Root)
    IN  IF c.err
        THEN Result(store, Emit(Emit(w, "info_label"), "log error"), open, ParseErrorLabel(c.path),
                    Cycle("config", save_to_file, "InputParseError", EmptyMap, {}, <<>>, NoSave))
        ELSE
        LET a == ConfigLoop([config |-> store, w |-> w, updated_cat |-> <<>>, writes |-> <<>>], c.ret, 1)
            w1 == Emit(a.w, "dismiss")
            cyc(outcome, saved) ==
                Cycle("config", save_to_file, outcome, c.ret, Range(a.writes), a.writes, saved)
            sv == SaveStep(w1, a.config, save_to_file, save_fails)
            saved == sv.saved
            engine_updates == IF "engine" \in DOMAIN a.updated_cat THEN a.updated_cat["engine"] ELSE <<>>
        IN  IF sv.raised
            THEN Result(a.config, sv.w, FALSE, label, cyc("IOError", saved))
            ELSE
            LET w2 == sv.w
            IN  IF "visits" \in Range(engine_updates)
                \* engine_updates is a list: engine_updates["visits"] raises TypeError
                THEN Result(a.config, Emit(w2, "raise TypeError"), FALSE, label, cyc("TypeError", saved))
                ELSE
                LET restart == {key \in Range(engine_updates) : key \notin NoRestartKeys} # {}
                    w3 == IF restart
                          THEN Emit(Clock_schedule_once(Emit(Emit(w2, "info_label"), "set_status"), a.config),
                                    "schedule_once")
                          ELSE w2
                    w4 == [w3 EXCEPT !.katrain.debug_level = a.config.v["debug"].v["level"]]
                IN  Result(a.config, Emit(w4, "update_state redraw_board"), FALSE,
                           IF restart THEN RestartLabel ELSE label, cyc("ok", saved))

\* needle in name, on the names the forms use: none is part of another
in(needle, name) == needle = name

RECURSIVE TeacherLoopBlue(_, _, _)
\* the loop with the alpha flag written into the blue channel of the colour
TeacherLoopBlue(acc, c, i) ==
    IF i > Len(c.keys) THEN acc
    ELSE LET k == c.keys[i]
             v == c.val[k]
             k1 == split(k, "::")[1]
             n == DigitVal(split(k, "::")[2])
             ui_settings == acc.config.v["board_ui"]
             sgf_settings == acc.config.v["sgf"]
             settings == acc.config.v["trainer"]
             alpha == FloatV(IF Truthy(v) THEN 10 ELSE 0)
             wrote(store) == [config |-> store, w |-> Emit(acc.w, "write"), writes |-> Append(acc.writes, k)]
         IN  IF "::" \in Range(k)
             THEN IF in("alpha", k1)
                  THEN IF ~PyEq(ui_settings.v["eval_colors"].v[n + 1].v[4], alpha)
                       THEN TeacherLoopBlue(wrote(DictSet(acc.config, "board_ui",
                                DictSet(ui_settings, "eval_colors",
                                    ListSet(ui_settings.v["eval_colors"], n,
                                        ListSet(ui_settings.v["eval_colors"].v[n + 1], 2, alpha))))), c, i + 1)
                       ELSE TeacherLoopBlue(acc, c, i + 1)
                  ELSE IF in("save_feedback", k1)
                  THEN IF ~PyEq(sgf_settings.v[k1].v[n + 1], v)
                       THEN TeacherLoopBlue(wrote(DictSet(acc.config, "sgf",
                                DictSet(sgf_settings, k1, ListSet(sgf_settings.v[k1], n, v)))), c, i + 1)
                       ELSE TeacherLoopBlue(acc, c, i + 1)
                  ELSE IF ~PyEq(settings.v[k1].v[n + 1], v)
                       THEN TeacherLoopBlue(wrote(DictSet(acc.config, "trainer",
                                DictSet(settings, k1, ListSet(settings.v[k1], n, v)))), c, i + 1)
                       ELSE TeacherLoopBlue(acc, c, i + 1)
             ELSE IF ~PyEq(settings.v[Join(k)], v)
                  THEN TeacherLoopBlue(wrote(DictSet(acc.config, "trainer", DictSet(settings, Join(k), v))), c, i + 1)
                  ELSE TeacherLoopBlue(acc, c, i + 1)

RECURSIVE TeacherLoop(_, _, _)
\* the loop of ConfigTeacherPopup.update_config over the collected items
TeacherLoop(acc, c, i) ==
    IF i > Len(c.keys) THEN acc
    ELSE LET k == c.keys[i]
             v == c.val[k]
             k1 == split(k, "::")[1]
             n == DigitVal(split(k, "::")[2])
             ui_settings == acc.config.v["board_ui"]
             sgf_settings == acc.config.v["sgf"]
             settings == acc.config.v["trainer"]
             alpha == FloatV(IF Truthy(v) THEN 10 ELSE 0)
             wrote(store) == [config |-> store, w |-> Emit(acc.w, "write"), writes |-> Append(acc.writes, k)]
         IN  IF "::" \in Range(k)
             THEN IF in("alpha", k1)
                  THEN IF ~PyEq(ui_settings.v["eval_colors"].v[n + 1].v[4], alpha)
                       THEN TeacherLoop(wrote(DictSet(acc.config, "board_ui",
                                DictSet(ui_settings, "eval_colors",
                                    ListSet(ui_settings.v["eval_colors"], n,
                                        ListSet(ui_settings.v["eval_colors"].v[n + 1], 3, alpha))))), c, i + 1)
                       ELSE TeacherLoop(acc, c, i + 1)
                  ELSE IF in("save_feedback", k1)
                  THEN IF ~PyEq(sgf_settings.v[k1].v[n + 1], v)
                       THEN TeacherLoop(wrote(DictSet(acc.config, "sgf",
                                DictSet(sgf_settings, k1, ListSet(sgf_settings.v[k1], n, v)))), c, i + 1)
                       ELSE TeacherLoop(acc, c, i + 1)
                  ELSE IF ~PyEq(settings.v[k1].v[n + 1], v)
                       THEN TeacherLoop(wrote(DictSet(acc.config, "trainer",
                                DictSet(settings, k1, ListSet(settings.v[k1], n, v)))), c, i + 1)
                       ELSE TeacherLoop(acc, c, i + 1)
             ELSE IF ~PyEq(settings.v[Join(k)], v)
                  THEN TeacherLoop(wrote(DictSet(acc.config, "trainer", DictSet(settings, Join(k), v))), c, i + 1)
                  ELSE TeacherLoop(acc, c, i + 1)

\* ConfigTeacherPopup.update_config(save_to_file)
Teacher_update_config(store, f, w0, open, label, save_to_file, save_fails) ==
    LET w == [w0 EXCEPT !.trace = <<>>]
        c == collect_properties(TeacherTree, f, Root)
    IN  IF c.err
        THEN Result(store, Emit(Emit(w, "info_label"), "log error"), open, ParseErrorLabel(c.path),
                    Cycle("teacher", save_to_file, "InputParseError", EmptyMap, {}, <<>>, NoSave))
        ELSE
        LET a == TeacherLoop([config |-> store, w |-> w, writes |-> <<>>], c.ret, 1)
            cyc(outcome, saved) ==
                Cycle("teacher", save_to_file, outcome, c.ret, Range(a.writes), a.writes, saved)
            sv == SaveStep(a.w, a.config, save_to_file, save_fails)
        IN  IF sv.raised
            THEN Result(a.config, sv.w, open, label, cyc("IOError", sv.saved))
            ELSE Result(a.config, Emit(Emit(Emit(sv.w, "dismiss"), "update_state"), "dismiss"), FALSE, label,
                        cyc("ok", sv.saved))

\* ------------------------------------------------------------ building forms
TextW(s) == [text |-> s]
CheckW(b) == [active |-> b]
\* a widget before any value is set on it
DefaultW(cls) == IF cls = "LabelledCheckBox" THEN CheckW(FALSE) ELSE TextW(<<>>)
\* widget_class(text=...): LabelledCheckBox.__init__ reads the text as a flag
NewW(cls, text) == IF cls = "LabelledCheckBox" THEN CheckW(lower(text) = <<"t", "r", "u", "e">>) ELSE TextW(text)

\* the fields ConfigPopup.build creates from the store
ConfigForm(store) ==
    [n \in FieldIds("config") |->
        LET node == ConfigTree[n]
            k == split(node.input_property, "/")
        IN  NewW(node.cls, str(store.v[k[1]].v[k[2]]))]

\* the fields ConfigTeacherPopup.build creates from its three stores
TeacherForm(store) ==
    [n \in FieldIds("teacher") |->
        LET node == TeacherTree[n]
            k == node.input_property
            i == IF "::" \in Range(k) THEN DigitVal(split(k, "::")[2]) ELSE 0
            settings == store.v["trainer"]
        IN  IF "::" \notin Range(k) THEN NewW(node.cls, str(settings.v[Join(k)]))
            ELSE IF n = AlphaId(i)
              THEN NewW(node.cls, str(BoolV(PyEq(store.v["board_ui"].v["eval_colors"].v[i + 1].v[4], IntV(1)))))
            ELSE IF n = SaveId(i) THEN NewW(node.cls, str(store.v["sgf"].v["save_feedback"].v[i + 1]))
            ELSE NewW(node.cls, str(settings.v["eval_thresholds"].v[i + 1]))]

QuickForm == [n \in FieldIds("quick") |-> DefaultW(QuickTree[n].cls)]

RECURSIVE set_properties(_, _, _)
RECURSIVE SetChildren(_, _, _)
\* QuickConfigGui.set_properties: acc = [config, form, w]
set_properties(tree, acc, w) ==
    LET node == tree[w]
        g == get_setting(acc.config, node.input_property)
        a1 == IF IsField(node)
              THEN [config |-> g.conf,
                    form |-> [acc.form EXCEPT ![w] =
                                IF node.cls = "LabelledCheckBox" THEN CheckW(g.value = BoolV(TRUE))
                                ELSE TextW(str(g.value))],
                    w |-> IF g.missing THEN Emit(acc.w, "log error") ELSE acc.w]
              ELSE acc
    IN  SetChildren(tree, a1, node.children)
SetChildren(tree, acc, cs) ==
    IF cs = <<>> THEN acc ELSE SetChildren(tree, set_properties(tree, acc, Head(cs)), Tail(cs))

\* ------------------------------------------------------------- insert_text
\* TextInput.insert_text: the substring goes in at the cursor
TextInput_insert_text(text, cursor, s) ==
    SubSeq(text, 1, cursor) \o s \o SubSeq(text, cursor + 1, Len(text))

NotMinus(c) == c # "-"
\* text.replace("-", "")
replace_minus(text) == SelectSeq(text, NotMinus)

FloatPatKeeps(c) == IsDigit(c) \/ c = "-"
\* re.sub(pat, "", s) with pat = [^0-9-]
FloatSub(s) == SelectSeq(s, FloatPatKeeps)
\* a filter that lets every point of the substring through
FloatFilterAllPoints(text, substring) ==
    SelectSeq(substring, LAMBDA c : FloatPatKeeps(c) \/ c = ".")
\* the substring LabelledFloatInput.insert_text hands on: without a point
\* when the text has one, else with its first point only
FloatFilter(text, substring) ==
    IF "." \in Range(text) THEN FloatSub(substring)
    ELSE IF "." \notin Range(substring) THEN FloatSub(substring)
    ELSE FloatSub(SubSeq(substring, 1, DotAt(substring) - 1)) \o <<".">>
         \o FloatSub(SubSeq(substring, DotAt(substring) + 1, Len(substring)))

\* an insert_text that clears the minus signs of an unsigned field only
Float_insert_text_unsigned_only(text, cursor, substring, signed) ==
    LET t == TextInput_insert_text(text, cursor, FloatFilter(text, substring))
    IN  IF ~signed /\ "-" \in Range(t) THEN replace_minus(t) ELSE t
\* LabelledFloatInput.insert_text: the text of the field after the call
Float_insert_text(text, cursor, substring, signed) ==
    LET t == TextInput_insert_text(text, cursor, FloatFilter(text, substring))
    IN  IF ~signed /\ "-" \in Range(t) THEN replace_minus(t)
        ELSE IF t # <<>> /\ "-" \in Range(Tail(t)) THEN <<Head(t)>> \o replace_minus(Tail(t))
        ELSE t

\* a filter that strips nothing
IntSubNothing(s) == s
\* re.sub(pat, "", s) with pat = [^0-9]
IntSub(s) == SelectSeq(s, IsDigit)
\* LabelledIntInput.insert_text: the text of the field after the call
Int_insert_text(text, cursor, substring) == TextInput_insert_text(text, cursor, IntSub(substring))

\* what a key press or a paste may carry into a field of the class
Keys(cls) == IF cls = "LabelledIntInput" THEN {"1", "2", "a"} ELSE {"1", "-", ".", "a"}
Substrings(cls) == UNION {[1..k -> Keys(cls)] : k \in 1..MaxSub}

\* what the user can leave in a text field
TextsOf(cls) ==
    IF cls = "LabelledIntInput" THEN {<<>>, <<"2">>}
    ELSE IF cls = "LabelledFloatInput" THEN {<<>>, <<"2", ".", "5">>}
    ELSE {<<"b">>, <<"c">>}

\* ---------------------------------------------------------------- the state
VARIABLES gui, config, form, pulled, popup_open, info_label, cycle,
          katrain, clock, trace, tasks, task, nops, typed
vars == <<gui, config, form, pulled, popup_open, info_label, cycle,
          katrain, clock, trace, tasks, task, nops, typed>>

\* no field is being typed into
NoField == [cls |-> "none", signed |-> FALSE, text |-> <<>>, fresh |-> FALSE, raw |-> <<>>]
Idle == [id |-> 0, pc |-> 0, loc |-> NoLocals]
TheWorld == World(katrain, clock, trace, tasks)

\* the state once the form g is built over the loaded configuration
InitOf(g) ==
    /\ gui = g
    /\ config = InitConfig
    /\ form = IF gui = "config" THEN ConfigForm(InitConfig)
              ELSE IF gui = "teacher" THEN TeacherForm(InitConfig) ELSE QuickForm
    /\ pulled = (gui # "quick")
    /\ popup_open = TRUE
    /\ info_label = <<>>
    /\ cycle = NoCycle
    /\ \E p \in Procs :
         katrain = [engines |-> <<[KataGoEngine(InitConfig) EXCEPT !.proc = p]>>, engine |-> 1,
                    game_engines |-> [c \in {"B", "W"} |-> 1], debug_level |-> IntV(0)]
    /\ clock = <<>>
    /\ trace = <<>>
    /\ tasks = <<>>
    /\ task = Idle
    /\ nops = 0
    /\ typed = NoField

Init == \E g \in Guis : InitOf(g)

\* the Clock callback QuickConfigGui.__init__ schedules
SetProperties ==
    /\ gui = "quick" /\ ~pulled /\ task.pc = 0
    /\ LET r == set_properties(QuickTree, [config |-> config, form |-> form, w |-> TheWorld], Root)
       IN  /\ config' = r.config
           /\ form' = r.form
           /\ trace' = r.w.trace
    /\ pulled' = TRUE
    /\ UNCHANGED <<typed, gui, popup_open, info_label, cycle, katrain, clock, tasks, task, nops>>

\* the user replaces the text of a field
EditText(n, txt) ==
    /\ pulled /\ task.pc = 0 /\ nops < MaxOps
    /\ Tree(gui)[n].cls \in TextClasses
    /\ txt \in TextsOf(Tree(gui)[n].cls) /\ txt # form[n].text
    /\ form' = [form EXCEPT ![n] = TextW(txt)]
    /\ nops' = nops + 1
    /\ UNCHANGED <<typed, gui, config, pulled, popup_open, info_label, cycle, katrain, clock, trace, tasks, task>>

\* the user toggles a checkbox
ToggleCheckBox(n) ==
    /\ pulled /\ task.pc = 0 /\ nops < MaxOps
    /\ Tree(gui)[n].cls = "LabelledCheckBox"
    /\ form' = [form EXCEPT ![n] = CheckW(~form[n].active)]
    /\ nops' = nops + 1
    /\ UNCHANGED <<typed, gui, config, pulled, popup_open, info_label, cycle, katrain, clock, trace, tasks, task>>

\* the popup is opened again: a new form object over the store
OpenPopup ==
    /\ ~popup_open /\ task.pc = 0
    /\ popup_open' = TRUE
    /\ form' = IF gui = "config" THEN ConfigForm(config)
               ELSE IF gui = "teacher" THEN TeacherForm(config) ELSE QuickForm
    /\ pulled' = (gui # "quick")
    /\ info_label' = <<>>
    /\ UNCHANGED <<typed, gui, config, cycle, katrain, clock, trace, tasks, task, nops>>

\* a handler ran: its result becomes the state
Becomes(r) ==
    /\ config' = r.config
    /\ katrain' = r.w.katrain
    /\ clock' = r.w.clock
    /\ trace' = r.w.trace
    /\ tasks' = r.w.tasks
    /\ popup_open' = r.popup_open
    /\ info_label' = r.info_label
    /\ cycle' = [r.cycle EXCEPT
                    !.again = /\ r.cycle.outcome # "InputParseError"
                              /\ cycle.outcome \notin {"none", "InputParseError"}
                              /\ r.cycle.collected = cycle.collected,
                    !.prev_changed = cycle.writes # <<>>]
    /\ nops' = nops + 1
    /\ UNCHANGED <<typed, gui, form, pulled, task>>

CanApply(g) == gui = g /\ pulled /\ task.pc = 0 /\ nops < MaxOps
Outcomes == {<<FALSE, FALSE>>, <<TRUE, FALSE>>, <<TRUE, TRUE>>}

QuickUpdateConfig(save_to_file, save_fails) ==
    /\ CanApply("quick")
    /\ Becomes(Quick_update_config(config, form, TheWorld, popup_open, info_label, save_to_file, save_fails))

ConfigUpdateConfig(save_to_file, save_fails) ==
    /\ CanApply("config")
    /\ Becomes(Config_update_config(config, form, TheWorld, popup_open, info_label, save_to_file, save_fails))

TeacherUpdateConfig(save_to_file, save_fails) ==
    /\ CanApply("teacher")
    /\ Becomes(Teacher_update_config(config, form, TheWorld, popup_open, info_label, save_to_file, save_fails))

\* the clock takes the next callback
ClockTick ==
    /\ task.pc = 0 /\ clock # <<>>
    /\ task' = [id |-> Head(clock), pc |-> 1, loc |-> NoLocals]
    /\ clock' = Tail(clock)
    /\ UNCHANGED <<typed, gui, config, form, pulled, popup_open, info_label, cycle, katrain, trace, tasks, nops>>

\* the running callback executes its next statement; after the last it returns
RestartStep ==
    /\ task.pc # 0
    /\ LET r == RunStep(TheWorld, task.loc, config, task.id, restart_engine[task.pc])
           last == task.pc = Len(restart_engine)
       IN  /\ katrain' = r.w.katrain
           /\ trace' = r.w.trace
           /\ tasks' = IF last THEN [r.w.tasks EXCEPT ![task.id].runs = @ + 1] ELSE r.w.tasks
           /\ task' = IF last THEN Idle ELSE [task EXCEPT !.pc = @ + 1, !.loc = r.loc]
    /\ UNCHANGED <<typed, gui, config, form, pulled, popup_open, info_label, cycle, clock, nops>>

\* an empty field of a form, before the user types: a signed or an unsigned
\* float field or an int field
EmptyField(cls, signed) == [cls |-> cls, signed |-> signed, text |-> <<>>, fresh |-> FALSE, raw |-> <<>>]
\* the field after insert_text(substring) left text t: fresh while the text
\* comes from one call on the empty field, raw being that call's substring
Typed(t, substring) ==
    [typed EXCEPT !.text = t, !.fresh = (typed.text = <<>>),
                  !.raw = IF typed.text = <<>> THEN substring ELSE <<>>]

\* the user types or pastes into a float field, the cursor anywhere
InsertFloat(cursor, substring) ==
    /\ typed.cls = "LabelledFloatInput"
    /\ cursor \in 0..Len(typed.text)
    /\ LET t == Float_insert_text(typed.text, cursor, substring, typed.signed)
       IN  /\ Len(t) <= MaxText
           /\ typed' = Typed(t, substring)
    /\ UNCHANGED <<gui, config, form, pulled, popup_open, info_label, cycle,
                   katrain, clock, trace, tasks, task, nops>>

\* the user types or pastes into an int field, the cursor anywhere
InsertInt(cursor, substring) ==
    /\ typed.cls = "LabelledIntInput"
    /\ cursor \in 0..Len(typed.text)
    /\ LET t == Int_insert_text(typed.text, cursor, substring)
       IN  /\ Len(t) <= MaxText
           /\ typed' = Typed(t, substring)
    /\ UNCHANGED <<gui, config, form, pulled, popup_open, info_label, cycle,
                   katrain, clock, trace, tasks, task, nops>>

Edit == \E n \in FieldIds(gui) : \E txt \in TextsOf(Tree(gui)[n].cls) : EditText(n, txt)
Toggle == \E n \in FieldIds(gui) : ToggleCheckBox(n)
QuickApply == \E o \in Outcomes : QuickUpdateConfig(o[1], o[2])
ConfigApply == \E o \in Outcomes : ConfigUpdateConfig(o[1], o[2])
TeacherApply == \E o \in Outcomes : TeacherUpdateConfig(o[1], o[2])

\* any of the three forms
Next ==
    \/ SetProperties
    \/ Edit
    \/ Toggle
    \/ OpenPopup
    \/ QuickApply
    \/ ConfigApply
    \/ TeacherApply
    \/ ClockTick
    \/ RestartStep
Spec == Init /\ [][Next]_vars

\* the ConfigPopup form and the engine restart it schedules
NextConfig ==
    \/ Edit
    \/ OpenPopup
    \/ ConfigApply
    \/ ClockTick
    \/ RestartStep
ConfigSpec == InitOf("config") /\ [][NextConfig]_vars
\* the clock runs every callback it holds, and a callback runs to its end
FairConfigSpec == ConfigSpec /\ WF_vars(ClockTick) /\ WF_vars(RestartStep)

\* the two forms addressed by category/key paths
NextPaths ==
    \/ SetProperties
    \/ Edit
    \/ Toggle
    \/ OpenPopup
    \/ QuickApply
    \/ ConfigApply
    \/ ClockTick
    \/ RestartStep
PathsSpec == (InitOf("quick") \/ InitOf("config")) /\ [][NextPaths]_vars

\* the ConfigTeacherPopup form over its three stores
NextTeacher ==
    \/ Edit
    \/ Toggle
    \/ OpenPopup
    \/ TeacherApply
TeacherSpec == InitOf("teacher") /\ [][NextTeacher]_vars

\* one text field, empty at first, and the calls of its insert_text
InitTyping ==
    /\ gui = "none"
    /\ config = InitConfig
    /\ form = <<>>
    /\ pulled = FALSE
    /\ popup_open = TRUE
    /\ info_label = <<>>
    /\ cycle = NoCycle
    /\ katrain = [engines |-> <<KataGoEngine(InitConfig)>>, engine |-> 1,
                  game_engines |-> [c \in {"B", "W"} |-> 1], debug_level |-> IntV(0)]
    /\ clock = <<>>
    /\ trace = <<>>
    /\ tasks = <<>>
    /\ task = Idle
    /\ nops = 0
    /\ typed \in {EmptyField("LabelledFloatInput", TRUE), EmptyField("LabelledFloatInput", FALSE),
                  EmptyField("LabelledIntInput", FALSE)}
TypeFloat == \E c \in 0..MaxText : \E sub \in Substrings("LabelledFloatInput") : InsertFloat(c, sub)
TypeInt == \E c \in 0..MaxText : \E sub \in Substrings("LabelledIntInput") : InsertInt(c, sub)
NextTyping ==
    \/ TypeFloat
    \/ TypeInt
TypingSpec == InitTyping /\ [][NextTyping]_vars

\* ------------------------------------------------------------------ claims
Allowlist == {"visits", "max_visits", "max_time", "enable_ownership", "wide_root_noise"}
\* the engine keys in the changed set of the last cycle
EngineChanged == {split(k, "/")[2] : k \in {p \in cycle.updated : split(p, "/")[1] = "engine"}}
\* the last cycle was a ConfigPopup cycle whose collect and save steps went through
ConfigCycleRan == cycle.gui = "config" /\ cycle.outcome \notin {"InputParseError", "IOError"}
LiveEngine == katrain.engines[katrain.engine]
RestartEvents ==
    {"restart_engine: shutdown", "restart_engine: KataGoEngine",
     "restart_engine: analyze_all_nodes", "restart_engine: update_state"}
Count(seq, S) == Cardinality({i \in 1..Len(seq) : seq[i] \in S})

\* C1: a ConfigPopup cycle whose changed set holds an engine key outside the
\* allowlist schedules the restart task and does not set the live engine's
\* visits, also when engine/visits changed in the same cycle.
C1_UnsafeKeyRestarts ==
    (ConfigCycleRan /\ EngineChanged \ Allowlist # {})
        => /\ "schedule_once" \in Range(trace)
           /\ Len(tasks) > 0
           /\ cycle.outcome = "ok"

\* C2: a ConfigPopup cycle in which engine/visits changed and every changed
\* engine key is in the allowlist sets the live engine's visits to the
\* collected value, schedules no restart and notifies the state change.
C2_VisitsHotApplied ==
    (ConfigCycleRan /\ "visits" \in EngineChanged /\ EngineChanged \subseteq Allowlist)
        => /\ PyEq(LiveEngine.visits, cycle.collected.val[<<"engine", "/", "visits">>])
           /\ "schedule_once" \notin Range(trace)
           /\ "update_state redraw_board" \in Range(trace)

\* an apply button was pressed: update_config ran
ApplyStep == nops' = nops + 1 /\ form' = form
SomeFieldFails == \E n \in FieldIds(gui) : ~input_value(Tree(gui)[n].cls, form[n]).ok
\* field n holds a valid value that differs from the stored one (ConfigPopup form)
FieldDiffers(n) ==
    /\ input_value(ConfigTree[n].cls, form[n]).ok
    /\ ~PyEq(Lookup(config, ConfigTree[n].input_property), input_value(ConfigTree[n].cls, form[n]).value)

\* C3: an apply cycle on a form in which some field fails to parse leaves the
\* store as it was and yields an empty changed set: nothing is written.
C3_ParseErrorWritesNothing ==
    [][(ApplyStep /\ SomeFieldFails)
         => /\ config' = config
            /\ cycle'.updated = {}
            /\ cycle'.writes = <<>>
            /\ cycle'.outcome = "InputParseError"]_vars
\* a cycle ended in the parse error while another field held a changed, valid value
C3_Witness ==
    /\ gui = "config" /\ cycle.outcome = "InputParseError"
    /\ \E n \in FieldIds("config") : FieldDiffers(n)

Max(S) == CHOOSE x \in S : \A y \in S : y <= x
Dependents == {katrain.engine, katrain.game_engines["B"], katrain.game_engines["W"]}

\* C4: whenever katrain.engine or an entry of game.engines refers to a newer
\* engine, every engine before it has been shut down (or never had a
\* process): no reference is repointed while the old engine still runs.
C4_OldStoppedBeforeRepoint ==
    \A e \in 1..Len(katrain.engines) :
        e < Max(Dependents) => katrain.engines[e].proc # "running"
\* the callback is between repointing katrain.engine and game.engines, the
\* old engine shut down
C4_Witness ==
    /\ task.pc # 0
    /\ katrain.engine = task.loc.new_engine
    /\ katrain.game_engines["B"] = task.loc.old_engine
    /\ katrain.engines[task.loc.old_engine].proc = "stopped"

\* C5: the restart callback never runs inside the handler that scheduled it:
\* in the calls made since the last handler began, everything the handler
\* did (writes, dismiss, save, its own update_state) comes before the first
\* statement of any restart callback.
C5_RestartDeferred ==
    \A i, j \in 1..Len(trace) :
        (i < j /\ trace[i] \in RestartEvents) => trace[j] \in RestartEvents
\* the handler scheduled a restart and finished; the callback then began
C5_Witness ==
    /\ cycle.gui = "config" /\ cycle.outcome = "ok" /\ cycle.save_to_file
    /\ \E i, j, k \in 1..Len(trace) :
         /\ i < j /\ j < k
         /\ trace[i] = "schedule_once"
         /\ trace[j] = "update_state redraw_board"
         /\ trace[k] \in RestartEvents
TaskIds == 1..MaxOps
\* C6: restart requests are neither coalesced nor dropped: every restart
\* callback handed to the clock runs, exactly once, and builds an engine of
\* its own, also when a second one is scheduled while the first is pending.
C6_EveryRestartRuns ==
    /\ [](\A a \in DOMAIN tasks :
            /\ tasks[a].runs <= 1
            /\ (tasks[a].runs = 1 => tasks[a].engine # 0)
            /\ \A b \in DOMAIN tasks : (a # b /\ tasks[a].engine # 0) => tasks[a].engine # tasks[b].engine)
    /\ \A id \in TaskIds : [](id \in DOMAIN tasks => <>(id \in DOMAIN tasks /\ tasks[id].runs = 1))
\* both callbacks ran after the second handler: they were pending together
C6_Witness ==
    /\ Len(tasks) = 2 /\ tasks[1].runs = 1 /\ tasks[2].runs = 1
    /\ tasks[1].engine # tasks[2].engine
    /\ Count(trace, {"restart_engine: KataGoEngine"}) = 2

LeafPaths(store) == UNION {{<<c, "/", k>> : k \in DOMAIN store.v[c].v} : c \in DOMAIN store.v}
\* C7: the loop of QuickConfigGui.update_config and of ConfigPopup.update_config
\* reports as changed exactly the collected paths whose stored value differed
\* before the call, writes the collected value there, and leaves every other
\* leaf of the store as it was.
C7_ChangedSetExact ==
    [][(ApplyStep /\ gui \in {"quick", "config"} /\ cycle'.outcome # "InputParseError")
         => LET c == cycle'.collected
                named == Range(c.keys)
            IN  /\ named \subseteq LeafPaths(config)
                /\ cycle'.updated = {k \in named : ~PyEq(Lookup(config, k), c.val[k])}
                /\ \A k \in cycle'.updated : Lookup(config', k) = c.val[k]
                /\ \A k \in LeafPaths(config) \ cycle'.updated : Lookup(config', k) = Lookup(config, k)
                /\ LeafPaths(config') = LeafPaths(config)]_vars
\* a cycle that changed some of the collected paths and left others
C7_Witness ==
    /\ cycle.gui \in {"quick", "config"} /\ cycle.outcome = "ok"
    /\ cycle.updated # {} /\ cycle.updated # Range(cycle.collected.keys)
    /\ \A k \in cycle.updated : Lookup(config, k) = cycle.collected.val[k]

\* C8: a second update_config call with the collected map of the call before
\* it reports an empty changed set and leaves the store as the first left it.
C8_ApplyIdempotent ==
    [][(/\ ApplyStep
        /\ cycle.outcome \notin {"none", "InputParseError"}
        /\ cycle'.outcome # "InputParseError"
        /\ cycle'.collected = cycle.collected)
         => (cycle'.updated = {} /\ cycle'.writes = <<>> /\ config' = config)]_vars
\* the second of two calls with one collected map, the first having written
C8_Witness ==
    /\ cycle.again /\ cycle.prev_changed /\ cycle.outcome = "ok"
    /\ cycle.updated = {}

NotifyEvents == {"update_state", "update_state redraw_board"}
\* C9: a cycle whose collect went through and whose changed set is not empty
\* calls katrain.update_state after its store writes, in all three forms.
C9_ChangeNotifies ==
    (cycle.outcome \notin {"none", "InputParseError", "IOError"} /\ cycle.updated # {})
        => \E i \in 1..Len(trace) :
             /\ trace[i] \in NotifyEvents
             /\ \A j \in 1..Len(trace) : trace[j] = "write" => j < i

SaveRightly ==
    /\ Count(trace, SaveEvents) = (IF cycle.save_to_file THEN 1 ELSE 0)
    /\ \A i, j \in 1..Len(trace) : (trace[i] \in SaveEvents /\ trace[j] = "write") => j < i
    /\ cycle.save_to_file => cycle.saved = config
\* C10 as claimed: every apply cycle calls save_config if and only if the
\* caller asked for it, at most once and after the writes of the cycle.
C10_SaveIffRequested == cycle.gui # "none" => SaveRightly
\* C10 as amended: every apply cycle whose collect raises no parse error calls
\* save_config if and only if the caller asked for it, at most once, after
\* the writes of the cycle and with the store that holds them.
C10_SaveIffRequestedAndCollected == cycle.outcome \notin {"none", "InputParseError"} => SaveRightly
\* a cycle that wrote and then saved
C10_Witness ==
    /\ cycle.outcome = "ok" /\ cycle.save_to_file /\ cycle.writes # <<>>
    /\ cycle.saved = config /\ "save_config" \in Range(trace)

\* the tokens of p appear in s, in a row
Contains(s, p) == \E i \in 1..(Len(s) - Len(p) + 1) : SubSeq(s, i, i + Len(p) - 1) = p
FailingPaths == {Tree(gui)[n].input_property :
                   n \in {m \in FieldIds(gui) : ~input_value(Tree(gui)[m].cls, form[m]).ok}}
\* C11: when collect raises the parse error in ConfigPopup or
\* ConfigTeacherPopup, the handler only reports: the popup stays as it was,
\* the label shows a message with the path of a failing field, the error is
\* logged, and nothing is saved, notified, applied to the engine or scheduled.
C11_ParseErrorOnlyReports ==
    [][(ApplyStep /\ gui \in {"config", "teacher"} /\ SomeFieldFails)
         => /\ popup_open' = popup_open
            /\ \E p \in FailingPaths : Contains(info_label', p)
            /\ trace' = <<"info_label", "log error">>
            /\ katrain' = katrain /\ clock' = clock /\ tasks' = tasks
            /\ config' = config]_vars
\* the teacher form reported the threshold that does not parse and stayed open
C11_Witness ==
    /\ gui = "teacher" /\ cycle.outcome = "InputParseError" /\ popup_open
    /\ Contains(info_label, <<"eval_thresholds", "::", "1">>)
    /\ trace = <<"info_label", "log error">>

\* set_properties ran over the form
PullStep == ~pulled /\ pulled'
MissingPaths == {p \in {QuickTree[n].input_property : n \in FieldIds("quick")} : ~HasPath(config, p)}
Route(k) ==
    IF "::" \notin Range(k) THEN "trainer"
    ELSE IF k[1] = "alpha" THEN "board_ui"
    ELSE IF k[1] = "save_feedback" THEN "sgf" ELSE "trainer"
\* C13: in ConfigTeacherPopup.update_config, alpha::i sets only element 3 of
\* eval_colors[i] in board_ui (1.0 for true, 0.0 for false), save_feedback::i
\* only save_feedback[i] in sgf, any other k::i only k[i] in trainer; a store
\* changes only if a changed key is routed to it.
C13_IndexedRouting ==
    [][(ApplyStep /\ gui = "teacher" /\ cycle'.outcome # "InputParseError")
         => LET c == cycle'.collected
                colors(st) == st.v["board_ui"].v["eval_colors"].v
                feedback(st) == st.v["sgf"].v["save_feedback"].v
                thresholds(st) == st.v["trainer"].v["eval_thresholds"].v
            IN  /\ \A i \in Idx :
                     /\ \A j \in 1..3 : colors(config')[i + 1].v[j] = colors(config)[i + 1].v[j]
                     /\ colors(config')[i + 1].v[4] =
                          FloatV(IF c.val[<<"alpha", "::", IdxTok(i)>>].v THEN 10 ELSE 0)
                     /\ feedback(config')[i + 1] = c.val[<<"save_feedback", "::", IdxTok(i)>>]
                     /\ thresholds(config')[i + 1] = c.val[<<"eval_thresholds", "::", IdxTok(i)>>]
                /\ Len(colors(config')) = NIdx /\ Len(feedback(config')) = NIdx
                /\ Len(thresholds(config')) = NIdx
                /\ DOMAIN config'.v = DOMAIN config.v
                /\ \A cat \in DOMAIN config.v :
                     /\ DOMAIN config'.v[cat].v = DOMAIN config.v[cat].v
                     /\ (config'.v[cat] # config.v[cat]) <=> (\E k \in cycle'.updated : Route(k) = cat)]_vars
\* one cycle cleared alpha::0 and save_feedback::0: same index, two stores,
\* the trainer store and the entries of index 1 as loaded
C13_Witness ==
    /\ cycle.gui = "teacher" /\ cycle.outcome = "ok"
    /\ cycle.updated = {<<"alpha", "::", "0">>, <<"save_feedback", "::", "0">>}
    /\ config.v["board_ui"].v["eval_colors"].v[1].v[4] = FloatV(0)
    /\ config.v["sgf"].v["save_feedback"].v[1] = BoolV(FALSE)
    /\ config.v["board_ui"].v["eval_colors"].v[2] = InitConfig.v["board_ui"].v["eval_colors"].v[2]
    /\ config.v["sgf"].v["save_feedback"].v[2] = BoolV(TRUE)
    /\ config.v["trainer"] = InitConfig.v["trainer"]

SaveFailed == "save_config raises IOError" \in Range(trace)
\* C14: a cycle that wrote and whose save failed keeps its writes in the
\* store and still carries out its other effects: the state notification,
\* the restart scheduling an engine key asks for, and a report of the failure
\* to the user.
C14_SaveFailureKeepsEffects ==
    (SaveFailed /\ cycle.writes # <<>>)
        => /\ cycle.saved = config
           /\ Range(trace) \cap NotifyEvents # {}
           /\ (cycle.gui = "config" /\ EngineChanged \ Allowlist # {}) => "schedule_once" \in Range(trace)
           /\ Range(trace) \cap {"info_label", "log error"} # {}

FloatField == typed.cls = "LabelledFloatInput"
IntField == typed.cls = "LabelledIntInput"
Places(text, c) == {i \in 1..Len(text) : text[i] = c}
\* C15: whatever is inserted into an empty LabelledFloatInput, wherever the
\* cursor is, the text holds at most one point; an unsigned field holds no
\* minus sign, a signed one at most one, in the first place.
C15_FloatTextNormalized ==
    FloatField
        => /\ Cardinality(Places(typed.text, ".")) <= 1
           /\ ~typed.signed => Places(typed.text, "-") = {}
           /\ typed.signed => Places(typed.text, "-") \subseteq {1}
\* a signed field that was handed "1-1": the minus sign after the first
\* place was removed, not moved to the front
C15_Witness ==
    /\ FloatField /\ typed.signed /\ typed.fresh
    /\ typed.raw = <<"1", "-", "1">>
    /\ typed.text = <<"1", "1">>

TypedValue == input_value(typed.cls, TextW(typed.text))
HasDigit(text) == \E i \in 1..Len(text) : IsDigit(text[i])
\* C16 as claimed: every text a LabelledFloatInput can reach through
\* insert_text parses, unless it is empty.
C16_NormalizedFloatParses == (FloatField /\ typed.text # <<>>) => TypedValue.ok
\* C16 as amended: a text a LabelledFloatInput can reach through insert_text
\* parses if and only if it holds a digit: the empty text, a lone minus
\* sign, a lone point and a minus sign with a point do not parse.
C16_NormalizedFloatParsesIffDigit == FloatField => (TypedValue.ok <=> HasDigit(typed.text))
\* a signed text with a point and a digit, which parses
C16_Witness ==
    /\ FloatField /\ typed.text = <<"-", ".", "1">>
    /\ TypedValue = [ok |-> TRUE, value |-> FloatV(-1)]

RECURSIVE DigitsOf(_)
\* the digits of a raw text, in its order
DigitsOf(raw) ==
    IF raw = <<>> THEN <<>>
    ELSE IF IsDigit(Head(raw)) THEN <<Head(raw)>> \o DigitsOf(Tail(raw)) ELSE DigitsOf(Tail(raw))
\* C17: the text of an int field holds digits only and parses unless it is
\* empty; a raw text entered into the empty field leaves its digits in their
\* order, and the value is the integer they spell.
C17_IntTextParses ==
    IntField
        => /\ AllDigits(typed.text)
           /\ TypedValue.ok <=> typed.text # <<>>
           /\ typed.fresh
                => /\ typed.text = DigitsOf(typed.raw)
                   /\ TypedValue.ok => TypedValue.value = IntV(DigitsVal(DigitsOf(typed.raw)))
\* "1a2" entered into the empty field reads 12
C17_Witness ==
    /\ IntField /\ typed.fresh /\ typed.raw = <<"1", "a", "2">>
    /\ typed.text = <<"1", "2">>
    /\ TypedValue = [ok |-> TRUE, value |-> IntV(12)]

Appended(e) == trace' = Append(trace, e)
InRestartEvents(e) == e \in RestartEvents
\* the last call a restart callback made, "none" if there is none in the trace
LastRestartEvent ==
    LET ev == SelectSeq(trace, InRestartEvents)
    IN  IF ev = <<>> THEN "none" ELSE ev[Len(ev)]
Newest == Len(katrain.engines)
RECURSIVE PreOrder(_, _)
RECURSIVE PreOrderAll(_, _)
\* the widgets in the order of a walk that visits a widget before its
\* children and the children as the children list has them
PreOrder(tree, w) == <<w>> \o PreOrderAll(tree, tree[w].children)
PreOrderAll(tree, cs) == IF cs = <<>> THEN <<>> ELSE PreOrder(tree, Head(cs)) \o PreOrderAll(tree, Tail(cs))
\* the field visited last among those with the path
LastWith(g, path) ==
    LET order == PreOrder(Tree(g), Root)
        at == {i \in 1..Len(order) : IsField(Tree(g)[order[i]]) /\ Tree(g)[order[i]].input_property = path}
    IN  order[Max(at)]
FieldsWith(g, path) == {n \in FieldIds(g) : Tree(g)[n].input_property = path}
\* C19: collect_properties returns one value for each path of the form; for
\* a path two fields carry, it is the value of the field visited later.
C19_LaterFieldWins ==
    [][(ApplyStep /\ gui \in {"quick", "config"} /\ cycle'.outcome # "InputParseError")
         => LET c == cycle'.collected
                paths == {Tree(gui)[n].input_property : n \in FieldIds(gui)}
            IN  /\ Range(c.keys) = paths /\ Len(c.keys) = Cardinality(paths)
                /\ DOMAIN c.val = paths
                /\ \A p \in paths :
                     c.val[p] = input_value(Tree(gui)[LastWith(gui, p)].cls, form[LastWith(gui, p)]).value]_vars
\* two fields of timer/main_time held different numbers; the cycle collected
\* that of the child, which the walk visits after its parent
C19_Witness ==
    /\ gui = "quick" /\ cycle.gui = "quick" /\ cycle.outcome = "ok"
    /\ FieldsWith("quick", <<"timer", "/", "main_time">>) = {2, 6}
    /\ LastWith("quick", <<"timer", "/", "main_time">>) = 6
    /\ input_value("LabelledIntInput", form[2]) = [ok |-> TRUE, value |-> IntV(1)]
    /\ input_value("LabelledIntInput", form[6]) = [ok |-> TRUE, value |-> IntV(2)]
    /\ cycle.collected.val[<<"timer", "/", "main_time">>] = IntV(2)
    /\ Lookup(config, <<"timer", "/", "main_time">>) = IntV(2)

\* no restart callback is pending or running
RestartsDone == clock = <<>> /\ task.pc = 0
\* C20: once every scheduled restart callback has run, no engine but the one
\* katrain.engine refers to is running, and katrain.engine and both
\* game.engines entries refer to that one engine, the newest.
C20_NoEngineLeakedLive ==
    RestartsDone
        => /\ \A e \in 1..Len(katrain.engines) : e # katrain.engine => katrain.engines[e].proc # "running"
           /\ Dependents = {katrain.engine}
           /\ katrain.engine = Newest
           /\ Newest = Len(tasks) + 1
           /\ \A id \in DOMAIN tasks : tasks[id].runs = 1
\* two callbacks were pending at once and both have run: engines 1 and 2
\* are stopped, every reference is to engine 3
C20_Witness ==
    /\ RestartsDone /\ Len(tasks) = 2
    /\ Count(trace, {"restart_engine: update_state"}) = 2
    /\ katrain.engines[1].proc = "stopped" /\ katrain.engines[2].proc = "stopped"
    /\ katrain.engines[3].proc = "running"
    /\ Dependents = {3}
====
